---- MODULE Spec2Model ----
(***************************************************************************)
(* Model of the Scene Buildup add-on (blender_scene_buildup/__init__.py):  *)
(* the ApplyAnimation and ClearAnimation operators acting on a small       *)
(* scene of host objects, their configuration bags, transforms, visibility *)
(* flags and animation tracks (actions).                                   *)
(*                                                                         *)
(* Numbers.  Lengths and scale factors are fixed point in thousandths      *)
(* (1.0 = 1000, floor_offset -0.05 = -50); overshoot_settle_ratio is in    *)
(* hundredths (0.2 = 20).  The values used keep every product exact.       *)
(* Visibility key values are 1 (hidden) and 0 (visible).                   *)
(***************************************************************************)
EXTENDS Integers, Sequences, FiniteSets, TLC

VARIABLES
    props,            \* obj.scene_buildup of every object
    location,         \* obj.location  (x, y, z)
    scale,            \* obj.scale     (x, y, z)
    hide_viewport,    \* obj.hide_viewport
    hide_render,      \* obj.hide_render
    animation_data,   \* obj.animation_data: present or not, and its action
    actions,          \* bpy.data.actions: action id -> set of keyframe points
    lastCall,         \* the most recent operation with its inputs and outcome
    log,              \* keyframe_insert calls of the most recent operator call
    ncalls,           \* operator invocations so far
    nedits,           \* configuration edits so far
    edit_object,      \* context.edit_object, "none" in object mode
    vert_select,      \* vertices of the edited mesh with v.select
    face_material,    \* face.material_index of the edited mesh
    materials,        \* bpy.data.materials: name -> material
    slots,            \* obj.data.materials of the edited mesh
    lights,           \* bpy.data.lights, in order of creation
    light_objects,    \* the light objects linked to the collection by the add-on
    light_settings    \* the light tool options of the edited object

\* what the edit-mode operators read and write besides the scene
MeshVars == <<edit_object, vert_select, face_material, materials, slots,
              lights, light_objects, light_settings>>

vars == <<props, location, scale, hide_viewport, hide_render,
          animation_data, actions, lastCall, log, ncalls, nedits,
          edit_object, vert_select, face_material, materials, slots,
          lights, light_objects, light_settings>>

-----------------------------------------------------------------------------
(* Bounds of the exploration *)

MaxStart == 2
MaxDuration == 4
MaxSel == 2
MaxCalls == 2
MaxEdits == 1

-----------------------------------------------------------------------------
(* The scene *)

Objects == {"cube", "lamp", "shade"}

ObjType(o) == IF o = "lamp" THEN "LIGHT" ELSE "MESH"

HasParent(o) == o \in {"lamp", "shade"}

ParentOf(o) == "cube"

Children(o) == IF o = "cube" THEN <<"lamp", "shade">> ELSE <<>>

\* 3x3 part of an object's world matrix: a rotation (identity, or a quarter
\* turn about X) composed with a per-axis scale.  Only invertible matrices
\* are modelled; the operators never re-evaluate the matrix while they run.
MatrixWorld3(o) ==
    IF o = "cube" THEN [rot |-> "X90", scl |-> <<1000, 2000, 1000>>]
    ELSE [rot |-> "I", scl |-> <<1000, 1000, 1000>>]

Effects == {"GROW_FROM_FLOOR", "GROW_OVERSHOOT", "FALL_DOWN", "NONE"}

AnimatingEffects == {"GROW_FROM_FLOOR", "GROW_OVERSHOOT", "FALL_DOWN"}

DefaultProps ==
    [enabled |-> FALSE, effect_type |-> "NONE", start_frame |-> 0,
     duration |-> 15, floor_offset |-> -50, overshoot_amount |-> 150,
     overshoot_settle_ratio |-> 20, fall_height |-> 500]

StartFrames == 0 .. MaxStart

\* the shortest plans and the longest one explored
Durations == {1, 2, MaxDuration}

\* context.selected_objects: sequences of distinct objects
Selections ==
    {s \in UNION {[1 .. n -> Objects] : n \in 0 .. MaxSel} :
        \A i, j \in DOMAIN s : i # j => s[i] # s[j]}

NoAnim == [has |-> FALSE, action |-> 0]

-----------------------------------------------------------------------------
(* The scene as one value, threaded through the steps of an operator *)

Scene ==
    [props |-> props, location |-> location, scale |-> scale,
     hide_viewport |-> hide_viewport, hide_render |-> hide_render,
     animation_data |-> animation_data, actions |-> actions, log |-> <<>>]

Commit(S) ==
    /\ props' = S.props
    /\ location' = S.location
    /\ scale' = S.scale
    /\ hide_viewport' = S.hide_viewport
    /\ hide_render' = S.hide_render
    /\ animation_data' = S.animation_data
    /\ actions' = S.actions
    /\ log' = S.log

HasAction(S, o) == S.animation_data[o].has /\ S.animation_data[o].action # 0

Users(S, a) ==
    Cardinality({o \in Objects :
        S.animation_data[o].has /\ S.animation_data[o].action = a})

NewActionId(S) == Cardinality(DOMAIN S.actions) + 1

-----------------------------------------------------------------------------
(* Host API: keyframe insertion *)

\* interpolation given to a newly inserted key by the host
keyframe_new_interpolation(path) ==
    IF path \in {"hide_viewport", "hide_render"} THEN "CONSTANT" ELSE "LINEAR"

PropValue(S, o, path, i) ==
    CASE path = "location" -> S.location[o][i + 1]
      [] path = "scale" -> S.scale[o][i + 1]
      [] path = "hide_viewport" -> IF S.hide_viewport[o] THEN 1 ELSE 0
      [] path = "hide_render" -> IF S.hide_render[o] THEN 1 ELSE 0

Indices(path, index) ==
    IF index # -1 THEN {index}
    ELSE IF path \in {"location", "scale"} THEN {0, 1, 2} ELSE {0}

NewAction(S, o) ==
    LET a == NewActionId(S)
    IN [S EXCEPT !.animation_data[o] = [has |-> TRUE, action |-> a],
                 !.actions = @ @@ (a :> {})]

KeyInterp(keys, path, i, frame) ==
    LET old == {k \in keys : k.data_path = path /\ k.array_index = i
                             /\ k.frame = frame}
    IN IF old = {} THEN keyframe_new_interpolation(path)
       ELSE (CHOOSE k \in old : TRUE).interpolation

\* the keyframe points written into the object's action, and the call logged
InsertKeys(S, o, path, index, frame, by) ==
    LET a == S.animation_data[o].action
        idx == Indices(path, index)
        keys == S.actions[a]
        new == {[data_path |-> path, array_index |-> i, frame |-> frame,
                 value |-> PropValue(S, o, path, i),
                 interpolation |-> KeyInterp(keys, path, i, frame)] : i \in idx}
        kept == {k \in keys : ~(k.data_path = path /\ k.array_index \in idx
                                /\ k.frame = frame)}
    IN [S EXCEPT !.actions[a] = kept \cup new,
                 !.log = Append(@, [by |-> by, obj |-> o, data_path |-> path,
                                    index |-> index, frame |-> frame,
                                    value |-> PropValue(S, o, path,
                                       IF index = -1 THEN 0 ELSE index)])]

\* obj.keyframe_insert: an object without an action gets a new one first
keyframe_insert(S, o, path, index, frame, by) ==
    IF S.animation_data[o].action = 0
    THEN InsertKeys(NewAction(S, o), o, path, index, frame, by)
    ELSE InsertKeys(S, o, path, index, frame, by)

SetHide(S, o, h) ==
    [S EXCEPT !.hide_viewport[o] = h, !.hide_render[o] = h]

KeyHide(S, o, frame, by) ==
    keyframe_insert(keyframe_insert(S, o, "hide_viewport", -1, frame, by),
                    o, "hide_render", -1, frame, by)

-----------------------------------------------------------------------------
(* SCENEBUILD_OT_ApplyAnimation *)

RemovedChannel(k) ==
    \/ k.data_path = "location" /\ k.array_index = 2
    \/ k.data_path = "scale"

\* "Clear existing keyframes for the properties we'll animate"
ClearExisting(S, o) ==
    IF ~HasAction(S, o) THEN S
    ELSE LET a0 == S.animation_data[o].action
             S1 == IF Users(S, a0) > 1
                   THEN LET a1 == NewActionId(S)
                        IN [S EXCEPT !.animation_data[o].action = a1,
                                     !.actions = @ @@ (a1 :> S.actions[a0])]
                   ELSE S
             a == S1.animation_data[o].action
         IN [S1 EXCEPT !.actions[a] = {k \in @ : ~RemovedChannel(k)}]

\* "Hide object before animation starts", "Show object at animation start"
RevealAtStart(S, o, start_frame) ==
    LET S1 == IF start_frame > 0
              THEN KeyHide(SetHide(S, o, TRUE), o, start_frame - 1, "apply")
              ELSE S
    IN KeyHide(SetHide(S1, o, FALSE), o, start_frame, "apply")

\* "Set interpolation to Bezier for smooth animation"
SetBezier(S, o, paths) ==
    IF ~HasAction(S, o) THEN S
    ELSE [S EXCEPT !.actions[S.animation_data[o].action] =
            {IF k.data_path \in paths
             THEN [k EXCEPT !.interpolation = "BEZIER"] ELSE k : k \in @}]

SetZ(S, o, z) == [S EXCEPT !.location[o][3] = z]

\* one (location.z, scale) keyframe pair of the grow effects
KeyGrow(S, o, z, sc, frame) ==
    LET S1 == [SetZ(S, o, z) EXCEPT !.scale[o] = sc]
    IN keyframe_insert(keyframe_insert(S1, o, "location", 2, frame, "apply"),
                       o, "scale", -1, frame, "apply")

\* variant: the end keyframe restores a unit scale instead of the captured one
GrowFromFloorUnitScale(S, o, p, start_frame, end_frame, original_location_z, original_scale) ==
    LET S1 == RevealAtStart(S, o, start_frame)
        S2 == KeyGrow(S1, o, p.floor_offset, <<0, 0, 0>>, start_frame)
        S3 == KeyGrow(S2, o, original_location_z, <<1000, 1000, 1000>>, end_frame)
    IN SetBezier(S3, o, {"location", "scale"})

GrowFromFloor(S, o, p, start_frame, end_frame, original_location_z, original_scale) ==
    LET S1 == RevealAtStart(S, o, start_frame)
        S2 == KeyGrow(S1, o, p.floor_offset, <<0, 0, 0>>, start_frame)
        S3 == KeyGrow(S2, o, original_location_z, original_scale, end_frame)
    IN SetBezier(S3, o, {"location", "scale"})

\* variant: min in place of max
SettleFramesMin(p) ==
    LET f == (p.duration * p.overshoot_settle_ratio) \div 100
    IN IF f < 1 THEN f ELSE 1

\* max(1, int(duration * overshoot_settle_ratio)), the ratio in hundredths
SettleFrames(p) ==
    LET f == (p.duration * p.overshoot_settle_ratio) \div 100
    IN IF f > 1 THEN f ELSE 1

OvershootFrame(p) == (p.start_frame + p.duration) - SettleFrames(p)

\* variant: the overshoot is added to the scale instead of multiplying it
OvershootScaleAdded(p, original_scale) ==
    [i \in 1 .. 3 |-> original_scale[i] + p.overshoot_amount]

OvershootScale(p, original_scale) ==
    [i \in 1 .. 3 |-> (original_scale[i] * (1000 + p.overshoot_amount)) \div 1000]

GrowOvershoot(S, o, p, start_frame, end_frame, original_location_z, original_scale) ==
    LET S1 == RevealAtStart(S, o, start_frame)
        S2 == KeyGrow(S1, o, p.floor_offset, <<0, 0, 0>>, start_frame)
        S3 == KeyGrow(S2, o, original_location_z,
                      OvershootScale(p, original_scale), OvershootFrame(p))
        S4 == KeyGrow(S3, o, original_location_z, original_scale, end_frame)
    IN SetBezier(S4, o, {"location", "scale"})

\* matrix.to_3x3().inverted() @ v  for a rotation composed with a scale
InvertedApply(m, v) ==
    LET w == IF m.rot = "I" THEN v ELSE <<v[1], v[3], 0 - v[2]>>
    IN [i \in 1 .. 3 |-> (w[i] * 1000) \div m.scl[i]]

\* variant: the world offset is used without conversion to parent space
LocalFallWorld(o, p) == <<0, 0, p.fall_height>>

LocalFall(o, p) ==
    LET world_fall == <<0, 0, p.fall_height>>
    IN IF HasParent(o)
       THEN InvertedApply(MatrixWorld3(ParentOf(o)), world_fall)
       ELSE world_fall

\* variant: the location is not put back before the end keyframe
FallDownNoRestore(S, o, p, start_frame, end_frame, original_scale) ==
    LET S1 == RevealAtStart(S, o, start_frame)
        local_fall == LocalFall(o, p)
        original_location == S1.location[o]
        S2 == [S1 EXCEPT !.location[o] =
                  [i \in 1 .. 3 |-> original_location[i] + local_fall[i]]]
        S3 == keyframe_insert(S2, o, "location", -1, start_frame, "apply")
        S5 == keyframe_insert(S3, o, "location", -1, end_frame, "apply")
        S6 == [S5 EXCEPT !.scale[o] = original_scale]
    IN SetBezier(S6, o, {"location"})

FallDown(S, o, p, start_frame, end_frame, original_scale) ==
    LET S1 == RevealAtStart(S, o, start_frame)
        local_fall == LocalFall(o, p)
        original_location == S1.location[o]
        S2 == [S1 EXCEPT !.location[o] =
                  [i \in 1 .. 3 |-> original_location[i] + local_fall[i]]]
        S3 == keyframe_insert(S2, o, "location", -1, start_frame, "apply")
        S4 == [S3 EXCEPT !.location[o] = original_location]
        S5 == keyframe_insert(S4, o, "location", -1, end_frame, "apply")
        S6 == [S5 EXCEPT !.scale[o] = original_scale]
    IN SetBezier(S6, o, {"location"})

\* variant: every child is keyed, whatever its type
HideOneChildAnyType(S, child, start_frame, end_frame) ==
    LET S1 == IF start_frame > 0
              THEN KeyHide(SetHide(S, child, TRUE), child,
                           start_frame - 1, "child")
              ELSE S
        S2 == KeyHide(SetHide(S1, child, TRUE), child, start_frame, "child")
        S3 == KeyHide(S2, child, end_frame - 1, "child")
    IN KeyHide(SetHide(S3, child, FALSE), child, end_frame, "child")

HideOneChild(S, child, start_frame, end_frame) ==
    IF ObjType(child) # "LIGHT" THEN S
    ELSE LET S1 == IF start_frame > 0
                   THEN KeyHide(SetHide(S, child, TRUE), child,
                                start_frame - 1, "child")
                   ELSE S
             S2 == KeyHide(SetHide(S1, child, TRUE), child, start_frame, "child")
             S3 == KeyHide(S2, child, end_frame - 1, "child")
         IN KeyHide(SetHide(S3, child, FALSE), child, end_frame, "child")

RECURSIVE HideChildren(_, _, _, _, _)
HideChildren(S, cs, i, start_frame, end_frame) ==
    IF i > Len(cs) THEN S
    ELSE HideChildren(HideOneChild(S, cs[i], start_frame, end_frame),
                      cs, i + 1, start_frame, end_frame)

_hide_child_lights_during_animation(S, o, start_frame, end_frame) ==
    HideChildren(S, Children(o), 1, start_frame, end_frame)

_apply_animation_to_object(S, o, p) ==
    LET start_frame == p.start_frame
        end_frame == start_frame + p.duration
        original_location_z == S.location[o][3]
        original_scale == S.scale[o]
        S1 == ClearExisting(S, o)
        S2 == CASE p.effect_type = "GROW_FROM_FLOOR" ->
                     GrowFromFloor(S1, o, p, start_frame, end_frame,
                                   original_location_z, original_scale)
                [] p.effect_type = "GROW_OVERSHOOT" ->
                     GrowOvershoot(S1, o, p, start_frame, end_frame,
                                   original_location_z, original_scale)
                [] p.effect_type = "FALL_DOWN" ->
                     FallDown(S1, o, p, start_frame, end_frame, original_scale)
                [] OTHER ->
                     [SetZ(S1, o, original_location_z) EXCEPT
                         !.scale[o] = original_scale]
    IN IF p.effect_type \in AnimatingEffects
       THEN _hide_child_lights_during_animation(S2, o, start_frame, end_frame)
       ELSE S2

\* variant: fall_height is left out of the copy
CopySettingsNoFallHeight(S, o, active) ==
    LET ap == S.props[active]
    IN [S EXCEPT !.props[o] =
          [@ EXCEPT !.enabled = ap.enabled,
                    !.effect_type = ap.effect_type,
                    !.start_frame = ap.start_frame,
                    !.duration = ap.duration,
                    !.floor_offset = ap.floor_offset,
                    !.overshoot_amount = ap.overshoot_amount,
                    !.overshoot_settle_ratio = ap.overshoot_settle_ratio]]

\* "Copy settings from active object to this object"
CopySettings(S, o, active) ==
    LET ap == S.props[active]
    IN [S EXCEPT !.props[o] =
          [@ EXCEPT !.enabled = ap.enabled,
                    !.effect_type = ap.effect_type,
                    !.start_frame = ap.start_frame,
                    !.duration = ap.duration,
                    !.floor_offset = ap.floor_offset,
                    !.fall_height = ap.fall_height,
                    !.overshoot_amount = ap.overshoot_amount,
                    !.overshoot_settle_ratio = ap.overshoot_settle_ratio]]

RECURSIVE ApplyToSelection(_, _, _, _)
ApplyToSelection(S, sel, i, active) ==
    IF i > Len(sel) THEN S
    ELSE LET S1 == CopySettings(S, sel[i], active)
         IN ApplyToSelection(_apply_animation_to_object(S1, sel[i], S1.props[sel[i]]),
                             sel, i + 1, active)

\* this call has the inputs of the call that finished just before it
Repeats(active, sel) ==
    /\ lastCall.op = "apply"
    /\ lastCall.result = "FINISHED"
    /\ lastCall.active = active
    /\ lastCall.sel = sel

\* variant: the enabled test comes after the selection has been processed
ApplyAnimationLateCheck(active, sel) ==
    /\ ncalls < MaxCalls
    /\ UNCHANGED MeshVars
    /\ ncalls' = ncalls + 1
    /\ UNCHANGED nedits
    /\ Commit(ApplyToSelection(Scene, sel, 1, active))
    /\ lastCall' = IF ~props[active].enabled
                   THEN [op |-> "apply", active |-> active, sel |-> sel,
                         repeat |-> Repeats(active, sel),
                         result |-> "CANCELLED", level |-> "WARNING",
                         message |-> "NotEnabled", count |-> 0]
                   ELSE [op |-> "apply", active |-> active, sel |-> sel,
                         repeat |-> Repeats(active, sel),
                         result |-> "FINISHED", level |-> "INFO",
                         message |-> "Applied", count |-> Len(sel)]

ApplyAnimation(active, sel) ==
    /\ ncalls < MaxCalls
    /\ UNCHANGED MeshVars
    /\ ncalls' = ncalls + 1
    /\ UNCHANGED nedits
    /\ IF ~props[active].enabled
       THEN /\ lastCall' = [op |-> "apply", active |-> active, sel |-> sel,
                         repeat |-> Repeats(active, sel),
                            result |-> "CANCELLED", level |-> "WARNING",
                            message |-> "NotEnabled", count |-> 0]
            /\ log' = <<>>
            /\ UNCHANGED <<props, location, scale, hide_viewport, hide_render,
                           animation_data, actions>>
       ELSE /\ Commit(ApplyToSelection(Scene, sel, 1, active))
            /\ lastCall' = [op |-> "apply", active |-> active, sel |-> sel,
                         repeat |-> Repeats(active, sel),
                            result |-> "FINISHED", level |-> "INFO",
                            message |-> "Applied", count |-> Len(sel)]

-----------------------------------------------------------------------------
(* SCENEBUILD_OT_ClearAnimation *)

animation_data_clear(S, o) == [S EXCEPT !.animation_data[o] = NoAnim]

ClearOneChild(S, child) ==
    IF ObjType(child) = "LIGHT" /\ S.animation_data[child].has
    THEN SetHide(animation_data_clear(S, child), child, FALSE)
    ELSE S

RECURSIVE ClearChildren(_, _, _)
ClearChildren(S, cs, i) ==
    IF i > Len(cs) THEN S
    ELSE ClearChildren(ClearOneChild(S, cs[i]), cs, i + 1)

ClearObjectKeepEnabled(S, o) ==
    LET S1 == IF S.animation_data[o].has THEN animation_data_clear(S, o) ELSE S
        S2 == ClearChildren(S1, Children(o), 1)
    IN [S2 EXCEPT !.props[o].effect_type = "NONE"]

ClearObject(S, o) ==
    LET S1 == IF S.animation_data[o].has THEN animation_data_clear(S, o) ELSE S
        S2 == ClearChildren(S1, Children(o), 1)
    IN [S2 EXCEPT !.props[o].enabled = FALSE, !.props[o].effect_type = "NONE"]

RECURSIVE ClearSelection(_, _, _)
ClearSelection(S, sel, i) ==
    IF i > Len(sel) THEN S
    ELSE ClearSelection(ClearObject(S, sel[i]), sel, i + 1)

RECURSIVE ClearedCount(_, _, _)
ClearedCount(S, sel, i) ==
    IF i > Len(sel) THEN 0
    ELSE (IF S.animation_data[sel[i]].has THEN 1 ELSE 0)
         + ClearedCount(ClearObject(S, sel[i]), sel, i + 1)

ClearAnimation(active, sel) ==
    /\ ncalls < MaxCalls
    /\ UNCHANGED MeshVars
    /\ ncalls' = ncalls + 1
    /\ UNCHANGED nedits
    /\ Commit(ClearSelection(Scene, sel, 1))
    /\ LET n == ClearedCount(Scene, sel, 1)
       IN lastCall' = [op |-> "clear", active |-> active, sel |-> sel,
                       repeat |-> FALSE,
                       result |-> "FINISHED",
                       level |-> IF n > 0 THEN "INFO" ELSE "WARNING",
                       message |-> IF n > 0 THEN "Cleared" ELSE "NoAnimationFound",
                       count |-> n]

-----------------------------------------------------------------------------
(* Configuration surface: the user edits an object's property group *)

Edited == [op |-> "edit", active |-> "cube", sel |-> <<>>, result |-> "",
           repeat |-> FALSE,
           level |-> "", message |-> "", count |-> 0]

Configure(o, e, s, d) ==
    /\ nedits < MaxEdits
    /\ UNCHANGED MeshVars
    /\ nedits' = nedits + 1
    /\ props' = [props EXCEPT ![o].enabled = TRUE, ![o].effect_type = e,
                              ![o].start_frame = s, ![o].duration = d]
    /\ lastCall' = Edited
    /\ log' = <<>>
    /\ UNCHANGED <<location, scale, hide_viewport, hide_render,
                   animation_data, actions, ncalls>>

Disable(o) ==
    /\ nedits < MaxEdits
    /\ UNCHANGED MeshVars
    /\ props[o].enabled
    /\ nedits' = nedits + 1
    /\ props' = [props EXCEPT ![o].enabled = FALSE]
    /\ lastCall' = Edited
    /\ log' = <<>>
    /\ UNCHANGED <<location, scale, hide_viewport, hide_render,
                   animation_data, actions, ncalls>>

-----------------------------------------------------------------------------
(* Initial scene and specification *)

\* property defaults of the light tool settings (intensity in watts)
DefaultLightSettings ==
    [light_offset |-> 10, light_intensity |-> 100, light_color_temp |-> "WARM"]

\* a material of the file that is not the mirror
WoodMaterial == [metallic |-> 0, roughness |-> 500,
                 base_color |-> <<800, 500, 200, 1000>>]

\* no mesh is being edited: the edit-mode operators are not available
ObjectMode ==
    /\ edit_object = "none"
    /\ vert_select = {}
    /\ face_material = [f \in 1 .. 2 |-> 0]
    /\ materials = ("Wood" :> WoodMaterial)
    /\ slots = <<"Wood">>
    /\ lights = <<>>
    /\ light_objects = <<>>
    /\ light_settings = DefaultLightSettings

\* a keyframe the user made by hand, on a channel the add-on never touches
UserKey == [data_path |-> "rotation_euler", array_index |-> 2, frame |-> 0,
            value |-> 0, interpolation |-> "LINEAR"]

\* The scene: "cube" is a mesh without a parent, never configured and never
\* animated; "lamp" (a light) and "shade" (a mesh) are its children, were
\* configured and enabled by the user earlier, and share one hand-made action.
Init ==
    /\ props = [o \in Objects |->
                 IF o = "cube" THEN DefaultProps
                 ELSE IF o = "lamp"
                 THEN [enabled |-> TRUE, effect_type |-> "GROW_OVERSHOOT",
                       start_frame |-> 2, duration |-> 4, floor_offset |-> -100,
                       overshoot_amount |-> 250, overshoot_settle_ratio |-> 50,
                       fall_height |-> 1000]
                 ELSE [enabled |-> TRUE, effect_type |-> "FALL_DOWN",
                       start_frame |-> 0, duration |-> 1, floor_offset |-> -200,
                       overshoot_amount |-> 500, overshoot_settle_ratio |-> 5,
                       fall_height |-> 2000]]
    /\ location = [o \in Objects |->
                 IF o = "cube" THEN <<0, 0, 2000>>
                 ELSE IF o = "lamp" THEN <<100, 200, 300>>
                 ELSE <<-400, 0, 600>>]
    /\ scale = [o \in Objects |->
                 IF o = "cube" THEN <<1000, 2000, 1000>>
                 ELSE IF o = "lamp" THEN <<1000, 1000, 1000>>
                 ELSE <<2000, 1000, 3000>>]
    /\ hide_viewport = [o \in Objects |-> FALSE]
    /\ hide_render = [o \in Objects |-> FALSE]
    /\ animation_data = [o \in Objects |->
                 IF o = "cube" THEN NoAnim ELSE [has |-> TRUE, action |-> 1]]
    /\ actions = (1 :> {UserKey})
    /\ lastCall = [op |-> "none", active |-> "cube", sel |-> <<>>, result |-> "",
                   repeat |-> FALSE,
                   level |-> "", message |-> "", count |-> 0]
    /\ log = <<>>
    /\ ncalls = 0
    /\ nedits = 0
    /\ ObjectMode

Next ==
    \/ \E active \in Objects, sel \in Selections : ApplyAnimation(active, sel)
    \/ \E active \in Objects, sel \in Selections : ClearAnimation(active, sel)
    \/ \E o \in Objects, e \in Effects, s \in StartFrames, d \in Durations :
          Configure(o, e, s, d)
    \/ \E o \in Objects : Disable(o)

Spec == Init /\ [][Next]_vars

-----------------------------------------------------------------------------
(* Observations used by the properties *)

\* the keyframes an object sees through its animation track
KeysOf(o) ==
    IF animation_data[o].has /\ animation_data[o].action # 0
    THEN actions[animation_data[o].action] ELSE {}

\* the same, in the state a step leads to
KeysOfNext(o) ==
    IF animation_data'[o].has /\ animation_data'[o].action # 0
    THEN actions'[animation_data'[o].action] ELSE {}

KeyValues(keys, path, i, frame) ==
    {k.value : k \in {x \in keys : x.data_path = path /\ x.array_index = i
                                   /\ x.frame = frame}}

KeyFrames(keys, path, i) ==
    {k.frame : k \in {x \in keys : x.data_path = path /\ x.array_index = i}}

\* location.z and scale keyed at a frame with the given values
GrowKeyed(keys, frame, z, sc) ==
    /\ KeyValues(keys, "location", 2, frame) = {z}
    /\ \A i \in 0 .. 2 : KeyValues(keys, "scale", i, frame) = {sc[i + 1]}

\* all three location components keyed at a frame with the given values
LocationKeyed(keys, frame, loc) ==
    \A i \in 0 .. 2 : KeyValues(keys, "location", i, frame) = {loc[i + 1]}

InSel(o, sel) == \E i \in DOMAIN sel : sel[i] = o

ApplyStep == ncalls' = ncalls + 1 /\ lastCall'.op = "apply"

FinishedApplyStep == ApplyStep /\ lastCall'.result = "FINISHED"

AppliedNow == lastCall.op = "apply" /\ lastCall.result = "FINISHED"

SceneVars == <<props, location, scale, hide_viewport, hide_render,
               animation_data, actions>>

-----------------------------------------------------------------------------
(* C1: ApplyAnimation with a disabled active object reports NotEnabled,    *)
(* returns cancelled and leaves every configuration, transform, visibility *)
(* flag, keyframe and animation track as it was.                           *)

C1_NotEnabledNoMutation ==
    [][(ApplyStep /\ ~props[lastCall'.active].enabled) =>
         /\ lastCall'.result = "CANCELLED"
         /\ lastCall'.level = "WARNING"
         /\ lastCall'.message = "NotEnabled"
         /\ UNCHANGED SceneVars
         /\ log' = <<>>]_vars

\* a rejected call whose selection holds an animated parent with a keyed light
C1_Witness ==
    /\ lastCall.op = "apply"
    /\ lastCall.result = "CANCELLED"
    /\ InSel("cube", lastCall.sel)
    /\ KeyFrames(KeysOf("cube"), "scale", 0) # {}
    /\ KeyFrames(KeysOf("lamp"), "hide_viewport", 0) # {}

(* C2: a successful ApplyAnimation leaves every selected object with the   *)
(* active object's eight options, leaves the active object's configuration *)
(* unchanged and reports as many objects as were selected.                 *)

C2_SettingsCopied ==
    [][FinishedApplyStep =>
         LET active == lastCall'.active
             sel == lastCall'.sel
         IN /\ props[active].enabled
            /\ props'[active] = props[active]
            /\ \A i \in DOMAIN sel :
                 /\ props'[sel[i]].enabled = props[active].enabled
                 /\ props'[sel[i]].effect_type = props[active].effect_type
                 /\ props'[sel[i]].start_frame = props[active].start_frame
                 /\ props'[sel[i]].duration = props[active].duration
                 /\ props'[sel[i]].floor_offset = props[active].floor_offset
                 /\ props'[sel[i]].overshoot_amount = props[active].overshoot_amount
                 /\ props'[sel[i]].overshoot_settle_ratio =
                        props[active].overshoot_settle_ratio
                 /\ props'[sel[i]].fall_height = props[active].fall_height
            /\ lastCall'.count = Len(sel)]_vars

\* two objects received the configuration of a third, active one
C2_Witness ==
    /\ AppliedNow
    /\ Len(lastCall.sel) = 2
    /\ ~InSel(lastCall.active, lastCall.sel)
    /\ \A i \in DOMAIN lastCall.sel :
         props[lastCall.sel[i]] = props[lastCall.active]

(* C3: with effect GrowFromFloor every selected object has position.z =    *)
(* floorOffset and scale (0,0,0) keyed at startFrame, its rest z and rest  *)
(* scale keyed at endFrame = startFrame + duration, and its transform      *)
(* after the call is the rest transform it had when the call began.        *)

C3_GrowFromFloorPlan ==
    [][(FinishedApplyStep
        /\ props[lastCall'.active].effect_type = "GROW_FROM_FLOOR") =>
         LET p == props[lastCall'.active]
             sel == lastCall'.sel
         IN \A i \in DOMAIN sel :
              LET o == sel[i]
                  keys == KeysOfNext(o)
              IN /\ GrowKeyed(keys, p.start_frame, p.floor_offset, <<0, 0, 0>>)
                 /\ GrowKeyed(keys, p.start_frame + p.duration,
                              location[o][3], scale[o])
                 /\ location'[o] = location[o]
                 /\ scale'[o] = scale[o]]_vars

\* an object of non-unit scale grown from the floor, starting after frame 0
C3_Witness ==
    /\ AppliedNow
    /\ props[lastCall.active].effect_type = "GROW_FROM_FLOOR"
    /\ props[lastCall.active].start_frame > 0
    /\ InSel("cube", lastCall.sel)
    /\ GrowKeyed(KeysOf("cube"),
                 props["cube"].start_frame + props["cube"].duration,
                 2000, <<1000, 2000, 1000>>)

\* start, overshoot and end are three distinct keyed frames within the window
ThreeDistinctFrames(keys, start_frame, end_frame) ==
    \A ch \in {<<"location", 2>>, <<"scale", 0>>, <<"scale", 1>>, <<"scale", 2>>} :
        LET fr == KeyFrames(keys, ch[1], ch[2])
        IN /\ Cardinality(fr) = 3
           /\ start_frame \in fr
           /\ end_frame \in fr
           /\ \A f \in fr : start_frame < f \/ f = start_frame
           /\ \A f \in fr : f < end_frame \/ f = end_frame

(* C4 as stated: with effect GrowOvershoot, for every duration >= 1, the   *)
(* keyed frames are startFrame < overshootFrame < endFrame, three distinct *)
(* frames.                                                                 *)

C4_StrictFramesAnyDuration ==
    [][(FinishedApplyStep
        /\ props[lastCall'.active].effect_type = "GROW_OVERSHOOT") =>
         LET p == props[lastCall'.active]
             sel == lastCall'.sel
         IN \A i \in DOMAIN sel :
              ThreeDistinctFrames(KeysOfNext(sel[i]), p.start_frame,
                                  p.start_frame + p.duration)]_vars

(* C4 amended: with effect GrowOvershoot and duration >= 2 the keyed       *)
(* frames are startFrame < overshootFrame < endFrame, three distinct       *)
(* frames.                                                                 *)

C4_StrictFrames ==
    [][(FinishedApplyStep
        /\ props[lastCall'.active].effect_type = "GROW_OVERSHOOT"
        /\ props[lastCall'.active].duration >= 2) =>
         LET p == props[lastCall'.active]
             sel == lastCall'.sel
         IN \A i \in DOMAIN sel :
              ThreeDistinctFrames(KeysOfNext(sel[i]), p.start_frame,
                                  p.start_frame + p.duration)]_vars

\* an overshoot plan whose settle phase is floor(duration * ratio) = 2 frames
C4_Witness ==
    /\ AppliedNow
    /\ props[lastCall.active].effect_type = "GROW_OVERSHOOT"
    /\ props[lastCall.active].duration >= 4
    /\ props[lastCall.active].overshoot_settle_ratio = 50
    /\ Len(lastCall.sel) > 0
    /\ \A i \in DOMAIN lastCall.sel :
         KeyFrames(KeysOf(lastCall.sel[i]), "scale", 0) =
            {props[lastCall.active].start_frame,
             props[lastCall.active].start_frame
                 + props[lastCall.active].duration - 2,
             props[lastCall.active].start_frame
                 + props[lastCall.active].duration}

\* the three keyframes of the overshoot plan, from the rest transform
OvershootKeyed(keys, p, rest_z, rest_scale) ==
    LET end_frame == p.start_frame + p.duration
        f == (p.duration * p.overshoot_settle_ratio) \div 100
        settleFrames == IF f >= 1 THEN f ELSE 1
        overshootFrame == end_frame - settleFrames
    IN /\ GrowKeyed(keys, p.start_frame, p.floor_offset, <<0, 0, 0>>)
       /\ KeyValues(keys, "location", 2, overshootFrame) = {rest_z}
       /\ \A i \in 1 .. 3 :
            /\ Cardinality(KeyValues(keys, "scale", i - 1, overshootFrame)) = 1
            /\ \A v \in KeyValues(keys, "scale", i - 1, overshootFrame) :
                 v * 1000 = rest_scale[i] * (1000 + p.overshoot_amount)
       /\ GrowKeyed(keys, end_frame, rest_z, rest_scale)

(* C5 as stated: with effect GrowOvershoot, for every valid parameter set, *)
(* startFrame holds z = floorOffset and scale 0, overshootFrame = endFrame *)
(* - max(1, floor(duration * ratio)) holds rest z and rest scale * (1 +    *)
(* overshootAmount), endFrame holds rest z and rest scale.                 *)

C5_OvershootPlanAnyDuration ==
    [][(FinishedApplyStep
        /\ props[lastCall'.active].effect_type = "GROW_OVERSHOOT") =>
         \A i \in DOMAIN lastCall'.sel :
            LET o == lastCall'.sel[i]
            IN OvershootKeyed(KeysOfNext(o), props[lastCall'.active],
                              location[o][3], scale[o])]_vars

(* C5 amended: the same three keyframes, for duration >= 2 (for duration 1 *)
(* overshootFrame is startFrame and the overshoot keyframe replaces the    *)
(* start keyframe).                                                        *)

C5_OvershootPlan ==
    [][(FinishedApplyStep
        /\ props[lastCall'.active].effect_type = "GROW_OVERSHOOT"
        /\ props[lastCall'.active].duration >= 2) =>
         \A i \in DOMAIN lastCall'.sel :
            LET o == lastCall'.sel[i]
            IN OvershootKeyed(KeysOfNext(o), props[lastCall'.active],
                              location[o][3], scale[o])]_vars

\* an object of non-unit scale keyed at an overshoot frame strictly inside
C5_Witness ==
    /\ AppliedNow
    /\ props[lastCall.active].effect_type = "GROW_OVERSHOOT"
    /\ props[lastCall.active].duration = 2
    /\ props[lastCall.active].overshoot_amount = 250
    /\ InSel("shade", lastCall.sel)
    /\ KeyValues(KeysOf("shade"), "scale", 2,
                 props[lastCall.active].start_frame + 1) = {3750}

\* forward product of a world 3x3 matrix (rotation after scale) with a vector
MatrixApply(m, v) ==
    LET w == [i \in 1 .. 3 |-> (v[i] * m.scl[i]) \div 1000]
    IN IF m.rot = "I" THEN w ELSE <<w[1], 0 - w[3], w[2]>>

\* product of the rotation alone with a vector
RotationApply(m, v) ==
    IF m.rot = "I" THEN v ELSE <<v[1], 0 - v[3], v[2]>>

\* the start offset of the fall plan, read back from the keyframes
KeyedFall(keys, start_frame, rest) ==
    [i \in 1 .. 3 |->
       (CHOOSE v \in KeyValues(keys, "location", i - 1, start_frame) : TRUE)
       - rest[i]]

FallKeyed(keys, p, rest) ==
    /\ \A i \in 0 .. 2 :
         Cardinality(KeyValues(keys, "location", i, p.start_frame)) = 1
    /\ LocationKeyed(keys, p.start_frame + p.duration, rest)
    /\ \A i \in 0 .. 2 : KeyFrames(keys, "scale", i) = {}

NoScaleWritten(o) ==
    \A j \in DOMAIN log' : ~(log'[j].obj = o /\ log'[j].data_path = "scale")

(* C6 as stated: with effect FallDown the position is keyed at startFrame  *)
(* to rest + localFall and at endFrame to rest, where localFall is         *)
(* (0,0,fallHeight) without a parent and inverse(parent rotation) applied  *)
(* to (0,0,fallHeight) with one; no scale keyframe is written and the      *)
(* scale afterwards is the rest scale.                                     *)

HeldValue(keys, path, f, current) ==
    LET fr == KeyFrames(keys, path, 0)
        upto == {g \in fr : g < f \/ g = f}
        at == IF upto = {}
              THEN CHOOSE g \in fr : \A h \in fr : g < h \/ g = h
              ELSE CHOOSE g \in upto : \A h \in upto : h < g \/ h = g
    IN IF fr = {} THEN current
       ELSE CHOOSE v \in KeyValues(keys, path, 0, at) : TRUE

HiddenAt(o, f) ==
    /\ HeldValue(KeysOf(o), "hide_viewport", f,
                 IF hide_viewport[o] THEN 1 ELSE 0) = 1
    /\ HeldValue(KeysOf(o), "hide_render", f,
                 IF hide_render[o] THEN 1 ELSE 0) = 1

VisibleAt(o, f) ==
    /\ HeldValue(KeysOf(o), "hide_viewport", f,
                 IF hide_viewport[o] THEN 1 ELSE 0) = 0
    /\ HeldValue(KeysOf(o), "hide_render", f,
                 IF hide_render[o] THEN 1 ELSE 0) = 0

HiddenWritten(o) ==
    \E j \in DOMAIN log :
        /\ log[j].obj = o
        /\ log[j].by = "apply"
        /\ log[j].data_path \in {"hide_viewport", "hide_render"}
        /\ log[j].value = 1

(* C7: after ApplyAnimation with an animating effect, whatever calls came  *)
(* before, the object is hidden at every frame of [0, startFrame-1] and    *)
(* visible at startFrame; with startFrame = 0 no hidden keyframe is        *)
(* written.  Stated for the objects whose parent is not selected with      *)
(* them, so that only their own plans write their visibility.              *)

C7_HiddenUntilStart ==
    (AppliedNow /\ props[lastCall.active].effect_type \in AnimatingEffects) =>
       \A i \in DOMAIN lastCall.sel :
          LET o == lastCall.sel[i]
              start_frame == props[lastCall.active].start_frame
          IN (~(HasParent(o) /\ InSel(ParentOf(o), lastCall.sel))) =>
               /\ \A f \in 0 .. start_frame - 1 : HiddenAt(o, f)
               /\ VisibleAt(o, start_frame)
               /\ (start_frame = 0 => ~HiddenWritten(o))

\* frames the most recent plan keys on a channel
PlanFrames(p, path, i) ==
    LET s == p.start_frame
        e == p.start_frame + p.duration
        grown == (path = "location" /\ i = 2) \/ path = "scale"
    IN CASE p.effect_type = "GROW_FROM_FLOOR" -> IF grown THEN {s, e} ELSE {}
         [] p.effect_type = "GROW_OVERSHOOT" ->
              IF grown THEN {s, OvershootFrame(p), e} ELSE {}
         [] p.effect_type = "FALL_DOWN" -> IF path = "location" THEN {s, e} ELSE {}
         [] OTHER -> {}

(* C8: after any sequence of ApplyAnimation calls the position (all three  *)
(* components) and scale channels of an object hold exactly the keyframes  *)
(* of the most recent plan; none of an earlier plan remains.               *)

C8_OnlyLatestPlan ==
    AppliedNow =>
       \A i \in DOMAIN lastCall.sel :
          \A path \in {"location", "scale"} : \A c \in 0 .. 2 :
             KeyFrames(KeysOf(lastCall.sel[i]), path, c)
                = PlanFrames(props[lastCall.active], path, c)

\* what a user sees of every object: keyframes, transform, visibility flags
View ==
    [o \in Objects |->
       [keys |-> KeysOf(o), location |-> location[o], scale |-> scale[o],
        hide_viewport |-> hide_viewport[o], hide_render |-> hide_render[o]]]

(* C9: ApplyAnimation called again with the same selection and unchanged   *)
(* configuration leaves the keyframes of every object and light child, the *)
(* transforms and the visibility flags as the first call left them.        *)

C9_ApplyIdempotent ==
    [][(AppliedNow /\ FinishedApplyStep /\ lastCall'.repeat) =>
          (View' = View /\ props' = props)]_vars

\* a parent and its light child animated twice in a row with the same inputs
C9_Witness ==
    /\ AppliedNow
    /\ lastCall.repeat
    /\ props[lastCall.active].effect_type = "FALL_DOWN"
    /\ props[lastCall.active].start_frame > 0
    /\ lastCall.sel = <<"lamp", "cube">>

\* the visibility keyframes the child pass wrote on one channel of a child
ChildWrites(c, path) ==
    LET Mine(e) == e.by = "child" /\ e.obj = c /\ e.data_path = path
        es == SelectSeq(log, Mine)
    IN [j \in 1 .. Len(es) |-> <<es[j].frame, es[j].value>>]

ChildSchedule(start_frame, end_frame) ==
    (IF start_frame > 0 THEN <<<<start_frame - 1, 1>>>> ELSE <<>>)
    \o <<<<start_frame, 1>>, <<end_frame - 1, 1>>, <<end_frame, 0>>>>

NonDecreasing(w) ==
    \A j \in 1 .. Len(w) - 1 : w[j][1] < w[j + 1][1] \/ w[j][1] = w[j + 1][1]

(* C10: the visibility propagator writes to each light child of an         *)
(* animated object, in this order, hidden at startFrame-1 (only when       *)
(* startFrame > 0), hidden at startFrame, hidden at endFrame-1 and visible *)
(* at endFrame; the frames never decrease; a child that is not a light     *)
(* receives no keyframe.                                                   *)

C10_ChildLightSchedule ==
    AppliedNow =>
       LET p == props[lastCall.active]
           animating == p.effect_type \in AnimatingEffects
       IN \A c \in Objects : \A path \in {"hide_viewport", "hide_render"} :
             LET w == ChildWrites(c, path)
             IN /\ NonDecreasing(w)
                /\ IF /\ animating
                      /\ ObjType(c) = "LIGHT"
                      /\ HasParent(c)
                      /\ InSel(ParentOf(c), lastCall.sel)
                   THEN /\ w = ChildSchedule(p.start_frame,
                                             p.start_frame + p.duration)
                        /\ ~InSel(c, lastCall.sel) =>
                              \A j \in 1 .. Len(w) :
                                 KeyValues(KeysOf(c), path, 0, w[j][1]) = {w[j][2]}
                   ELSE w = <<>>

\* a light child keyed for a one-frame plan that starts after frame 0,
\* beside a sibling that is not a light
C10_Witness ==
    /\ AppliedNow
    /\ props[lastCall.active].effect_type \in AnimatingEffects
    /\ props[lastCall.active].start_frame = 2
    /\ props[lastCall.active].duration = 1
    /\ lastCall.sel = <<"cube">>
    /\ ChildWrites("lamp", "hide_viewport")
          = <<<<1, 1>>, <<2, 1>>, <<2, 1>>, <<3, 0>>>>
    /\ ChildWrites("shade", "hide_viewport") = <<>>

-----------------------------------------------------------------------------
\* a light child of a selected object that is not itself selected
LightChildOf(c, sel) ==
    /\ ObjType(c) = "LIGHT"
    /\ HasParent(c)
    /\ InSel(ParentOf(c), sel)
    /\ ~InSel(c, sel)

(* C11: after ApplyAnimation with an animating effect on a parent,         *)
(* whatever calls came before, each light child outside the selection is   *)
(* hidden at every frame below the endFrame of the parent's most recent    *)
(* plan and visible at that endFrame (visibility keyframes held constant). *)

C11_ChildHiddenUntilEnd ==
    (AppliedNow /\ props[lastCall.active].effect_type \in AnimatingEffects) =>
       \A c \in Objects :
          LET end_frame == props[lastCall.active].start_frame
                              + props[lastCall.active].duration
          IN LightChildOf(c, lastCall.sel) =>
               /\ \A f \in 0 .. end_frame - 1 : HiddenAt(c, f)
               /\ VisibleAt(c, end_frame)

ClearStep == ncalls' = ncalls + 1 /\ lastCall'.op = "clear"

\* a light child of a selected object, selected itself or not
LightChildOfSelected(c, sel) ==
    ObjType(c) = "LIGHT" /\ HasParent(c) /\ InSel(ParentOf(c), sel)

\* the tracks of the selected objects and their light children are gone and
\* the light children that had a track are visible
ClearedTracks ==
    LET sel == lastCall'.sel
    IN /\ \A i \in DOMAIN sel : animation_data'[sel[i]] = NoAnim
       /\ \A c \in Objects :
            LightChildOfSelected(c, sel) =>
               /\ animation_data'[c] = NoAnim
               /\ animation_data[c].has =>
                     (~hide_viewport'[c] /\ ~hide_render'[c])

(* C12: after ClearAnimation every selected object and every light child   *)
(* of a selected object has no animation-track data, every such light      *)
(* child that had animation data is visible, and all eight options of each *)
(* selected object are back at their defaults.                             *)

C12_ClearResetsAll ==
    [][ClearStep =>
         /\ ClearedTracks
         /\ \A i \in DOMAIN lastCall'.sel :
              props'[lastCall'.sel[i]] = DefaultProps]_vars

\* objects whose animation-track data a step removes
TracksRemoved == {o \in Objects : animation_data[o].has /\ ~animation_data'[o].has}

(* C13: ClearAnimation reports NoAnimationFound exactly when the call      *)
(* removed no animation data at all, neither from a selected object nor    *)
(* from a light child; in every case it finishes rather than cancelling.   *)

C13_NoAnimationFoundIffNothingRemoved ==
    [][ClearStep =>
         /\ (lastCall'.message = "NoAnimationFound") <=> (TracksRemoved = {})
         /\ lastCall'.result = "FINISHED"]_vars

\* the state ClearAnimation leaves a selected object in
Cleared(o) ==
    ~props[o].enabled /\ props[o].effect_type = "NONE" /\ KeysOf(o) = {}

ClearedNext(o) ==
    ~props'[o].enabled /\ props'[o].effect_type = "NONE" /\ KeysOfNext(o) = {}

\* ClearAnimation puts every selected object in the cleared state
ClearLeavesCleared ==
    ClearStep => \A i \in DOMAIN lastCall'.sel : ClearedNext(lastCall'.sel[i])

\* ApplyAnimation with a cleared object active is rejected and changes nothing
ClearedRejectsApply ==
    \A o \in Objects :
       (Cleared(o) /\ ApplyStep /\ lastCall'.active = o) =>
          /\ lastCall'.result = "CANCELLED"
          /\ lastCall'.message = "NotEnabled"
          /\ UNCHANGED SceneVars

\* keyframes a step writes on a still-disabled object as another's light child
KeyedAsLightChild(o) ==
    /\ FinishedApplyStep
    /\ LightChildOf(o, lastCall'.sel)
    /\ \A k \in KeysOfNext(o) : k.data_path \in {"hide_viewport", "hide_render"}

(* C14 as stated: once ClearAnimation has run on an object, the object has *)
(* enabled=false, effect=None and none of the module's keyframes, and      *)
(* stays so, every ApplyAnimation with it active being rejected with       *)
(* NotEnabled, until it is enabled again.                                  *)

C14_ClearedUntilEnabled ==
    [][/\ ClearLeavesCleared
       /\ ClearedRejectsApply
       /\ \A o \in Objects :
            (Cleared(o) /\ ~props'[o].enabled) => ClearedNext(o)]_vars

(* C14: ClearAnimation leaves every selected object with enabled=false,    *)
(* effect=None and no keyframes; until the object is enabled again every   *)
(* ApplyAnimation with it active is rejected with NotEnabled, it keeps     *)
(* enabled=false and effect=None, and it receives no keyframes other than  *)
(* the visibility keyframes written on it as the light child of a selected *)
(* parent.                                                                 *)

C14_ClearedLifecycle ==
    [][/\ ClearLeavesCleared
       /\ ClearedRejectsApply
       /\ \A o \in Objects :
            (Cleared(o) /\ ~props'[o].enabled) =>
               /\ props'[o].effect_type = "NONE"
               /\ KeysOfNext(o) = {} \/ KeyedAsLightChild(o)]_vars

\* an object that was animated through another's configuration, then cleared
C14_Witness ==
    /\ lastCall.op = "clear"
    /\ lastCall.sel = <<"cube">>
    /\ lastCall.count = 1
    /\ props["cube"].fall_height = 2000
    /\ Cleared("cube")

(* C15: ApplyAnimation duplicates a track referenced by more than one     *)
(* object before writing to it, for the selected objects and for the light *)
(* children alike, so the keyframes seen by an object that is neither      *)
(* selected nor a light child of a selected object are unchanged.          *)

C15_SharedTrackSafety ==
    [][FinishedApplyStep =>
         \A o \in Objects :
            (~InSel(o, lastCall'.sel) /\ ~LightChildOfSelected(o, lastCall'.sel))
               => KeysOfNext(o) = KeysOf(o)]_vars

-----------------------------------------------------------------------------
(* Edit mode: the mesh of context.edit_object.  Both meshes of the scene   *)
(* have the same local geometry, two triangles that meet at a right angle; *)
(* a face counts as selected when all its vertices are.                    *)

MaxLights == 1

Meshes == {o \in Objects : ObjType(o) = "MESH"}

Verts == 1 .. 4

Faces == 1 .. 2

\* v.co
VertCo(v) ==
    CASE v = 1 -> <<0, 0, 0>>
      [] v = 2 -> <<300, 0, 0>>
      [] v = 3 -> <<0, 400, 0>>
      [] v = 4 -> <<0, 0, 300>>

FaceVerts(f) == IF f = 1 THEN {1, 2, 3} ELSE {1, 3, 4}

\* f.normal
FaceNormal(f) == IF f = 1 THEN <<0, 0, 1000>> ELSE <<1000, 0, 0>>

\* translation part of obj.matrix_world
MatrixWorldOrigin(o) ==
    IF o = "cube" THEN <<0, 0, 2000>> ELSE <<-400, -600, 2000>>

\* matrix_world @ v.co
WorldCo(o, v) ==
    LET w == MatrixApply(MatrixWorld3(o), VertCo(v))
    IN [i \in 1 .. 3 |-> w[i] + MatrixWorldOrigin(o)[i]]

SelectedFaces(vs) == {f \in Faces : FaceVerts(f) \subseteq vs}

SetMin(s) == CHOOSE x \in s : \A y \in s : x < y \/ x = y

SetMax(s) == CHOOSE x \in s : \A y \in s : y < x \/ y = x

\* floor of the square root
ISqrt(n) == CHOOSE r \in 0 .. n : r * r <= n /\ n < (r + 1) * (r + 1)

\* Vector.length
Length(v) == ISqrt(v[1] * v[1] + v[2] * v[2] + v[3] * v[3])

\* quotient rounded toward zero
Quot(a, b) == IF a < 0 THEN 0 - ((0 - a) \div b) ELSE a \div b

\* Vector.normalize(): a zero vector stays as it is
Normalize(v) ==
    IF Length(v) = 0 THEN v
    ELSE [i \in 1 .. 3 |-> Quot(v[i] * 1000, Length(v))]

RECURSIVE SumNormals(_)
SumNormals(fs) ==
    IF fs = {} THEN <<0, 0, 0>>
    ELSE LET f == CHOOSE x \in fs : TRUE
             rest == SumNormals(fs \ {f})
         IN [i \in 1 .. 3 |-> FaceNormal(f)[i] + rest[i]]

\* "Get average normal from selected faces", transformed to world space
AvgNormal(o, fs) ==
    Normalize(MatrixApply(MatrixWorld3(o), Normalize(SumNormals(fs))))

\* "Calculate bounds in world space", "Calculate center"
Center(o, vs) ==
    [i \in 1 .. 3 |->
       (SetMin({WorldCo(o, v)[i] : v \in vs})
          + SetMax({WorldCo(o, v)[i] : v \in vs})) \div 2]

\* "Calculate sizes": the extents, each at least 0.1
Sizes(o, vs) ==
    [i \in 1 .. 3 |->
       LET d == SetMax({WorldCo(o, v)[i] : v \in vs})
                  - SetMin({WorldCo(o, v)[i] : v \in vs})
       IN IF d > 100 THEN d ELSE 100]

\* sorted([size_x, size_y, size_z], reverse=True)
Dimensions(sz) ==
    LET first == CHOOSE i \in 1 .. 3 : \A j \in 1 .. 3 : sz[j] <= sz[i]
        second == CHOOSE i \in (1 .. 3) \ {first} :
                     \A j \in (1 .. 3) \ {first} : sz[j] <= sz[i]
    IN <<sz[first], sz[second]>>

RECURSIVE SumDistances(_, _, _)
SumDistances(o, vs, center) ==
    IF vs = {} THEN 0
    ELSE LET v == CHOOSE x \in vs : TRUE
         IN Length([i \in 1 .. 3 |-> WorldCo(o, v)[i] - center[i]])
              + SumDistances(o, vs \ {v}, center)

\* "Calculate average radius for soft shadow size"
AvgRadius(o, vs) == SumDistances(o, vs, Center(o, vs)) \div Cardinality(vs)

\* "Color mapping"
Colors(temp) ==
    CASE temp = "WARM" -> <<1000, 950, 800>>
      [] temp = "NEUTRAL" -> <<1000, 1000, 1000>>
      [] temp = "COOL" -> <<900, 1000, 1000>>

\* "Create light data" and "Configure based on light type"; the fields the
\* operator does not set keep the host's defaults
LightData(o, light_type, vs, ls) ==
    LET dimensions == Dimensions(Sizes(o, vs))
        avg_radius == AvgRadius(o, vs)
    IN [name |-> o, type |-> light_type,
        energy |-> ls.light_intensity,
        color |-> Colors(ls.light_color_temp),
        shape |-> IF light_type = "AREA" THEN "RECTANGLE" ELSE "SQUARE",
        size |-> IF light_type = "AREA" THEN dimensions[1] ELSE 250,
        size_y |-> IF light_type = "AREA" THEN dimensions[2] ELSE 250,
        shadow_soft_size |->
           IF light_type = "POINT"
           THEN (IF avg_radius > 100 THEN avg_radius ELSE 100)
           ELSE 250]

\* "Sync with parent animation if it exists"
SyncsWithParent(p) == p.enabled /\ p.effect_type \in AnimatingEffects

\* the visibility keyframes of the new light: hidden at start_frame - 1
\* (when start_frame > 0), start_frame and end_frame - 1, visible at end_frame
LightKeys(p) ==
    LET start_frame == p.start_frame
        end_frame == start_frame + p.duration
        hidden == (IF start_frame > 0 THEN {start_frame - 1} ELSE {})
                     \cup {start_frame, end_frame - 1}
    IN {[data_path |-> path, array_index |-> 0, frame |-> f,
         value |-> IF f = end_frame THEN 0 ELSE 1,
         interpolation |-> keyframe_new_interpolation(path)] :
           path \in {"hide_viewport", "hide_render"},
           f \in hidden \cup {end_frame}}

\* the keyframe_insert calls that write them, in the order of the code
LightLog(p) ==
    LET start_frame == p.start_frame
        end_frame == start_frame + p.duration
        Both(f, v) ==
           <<[by |-> "add_light", obj |-> "new_light",
              data_path |-> "hide_viewport", index |-> -1, frame |-> f,
              value |-> v],
             [by |-> "add_light", obj |-> "new_light",
              data_path |-> "hide_render", index |-> -1, frame |-> f,
              value |-> v]>>
    IN (IF start_frame > 0 THEN Both(start_frame - 1, 1) ELSE <<>>)
         \o Both(start_frame, 1) \o Both(end_frame - 1, 1)
         \o Both(end_frame, 0)

\* "Create light object", "Position light in world space", "Rotate area
\* light to match surface normal", "Parent light to source mesh"
LightObject(o, light_type, vs, ls, data, action) ==
    LET center == Center(o, vs)
        fs == SelectedFaces(vs)
        along == light_type = "AREA" /\ fs # {}
        avg_normal == AvgNormal(o, fs)
    IN [name |-> o, data |-> data, parent |-> o,
        matrix_parent_inverse |-> [inverse_of |-> o],
        location |->
           IF along
           THEN [i \in 1 .. 3 |->
                   center[i] + Quot(avg_normal[i] * ls.light_offset, 1000)]
           ELSE center,
        rotation_mode |-> IF along THEN "QUATERNION" ELSE "XYZ",
        rotation_quaternion |->
           IF along THEN [from |-> <<0, 0, -1000>>, to |-> avg_normal]
           ELSE [from |-> <<0, 0, -1000>>, to |-> <<0, 0, -1000>>],
        hide_viewport |-> FALSE, hide_render |-> FALSE,
        action |-> action]

\* variant: the empty selection is not rejected; the light goes to the origin
AddLightToLampUnchecked(light_type) ==
    LET obj == edit_object
        vs == IF vert_select = {} THEN {1} ELSE vert_select
        synced == SyncsWithParent(props[obj])
        a == IF synced THEN Cardinality(DOMAIN actions) + 1 ELSE 0
    IN /\ obj \in Meshes
       /\ Len(lights) < MaxLights
       /\ lights' = Append(lights, LightData(obj, light_type, vs, light_settings))
       /\ light_objects' = Append(light_objects,
             LightObject(obj, light_type, vs, light_settings,
                         Len(lights) + 1, a))
       /\ actions' = IF synced THEN actions @@ (a :> LightKeys(props[obj]))
                     ELSE actions
       /\ lastCall' = [op |-> "add_light", active |-> obj, sel |-> <<>>,
                       repeat |-> FALSE, result |-> "FINISHED",
                       level |-> "INFO", message |-> "Created",
                       count |-> Cardinality(vert_select)]
       /\ log' = (IF synced THEN LightLog(props[obj]) ELSE <<>>)
       /\ UNCHANGED <<props, location, scale, hide_viewport, hide_render,
                      animation_data, ncalls, nedits, edit_object,
                      vert_select, face_material, materials, slots,
                      light_settings>>

(* SCENEBUILD_OT_AddLightToLamp *)
AddLightToLamp(light_type) ==
    LET obj == edit_object
        synced == SyncsWithParent(props[obj])
        a == IF synced THEN Cardinality(DOMAIN actions) + 1 ELSE 0
    IN /\ obj \in Meshes
       /\ vert_select # {} => Len(lights) < MaxLights
       /\ UNCHANGED <<props, location, scale, hide_viewport, hide_render,
                      animation_data, ncalls, nedits, edit_object,
                      vert_select, face_material, materials, slots,
                      light_settings>>
       /\ IF vert_select = {}
          THEN /\ lastCall' = [op |-> "add_light", active |-> obj,
                               sel |-> <<>>, repeat |-> FALSE,
                               result |-> "CANCELLED", level |-> "WARNING",
                               message |-> "EmptySelection", count |-> 0]
               /\ log' = <<>>
               /\ UNCHANGED <<lights, light_objects, actions>>
          ELSE /\ log' = (IF synced THEN LightLog(props[obj]) ELSE <<>>)
               /\ lights' = Append(lights,
                     LightData(obj, light_type, vert_select, light_settings))
               /\ light_objects' = Append(light_objects,
                     LightObject(obj, light_type, vert_select, light_settings,
                                 Len(lights) + 1, a))
               /\ actions' = IF synced
                             THEN actions @@ (a :> LightKeys(props[obj]))
                             ELSE actions
               /\ lastCall' = [op |-> "add_light", active |-> obj,
                               sel |-> <<>>, repeat |-> FALSE,
                               result |-> "FINISHED", level |-> "INFO",
                               message |-> "Created",
                               count |-> Cardinality(vert_select)]

\* the material create_mirror_material builds: white, fully metallic, smooth
MirrorMaterial == [metallic |-> 1000, roughness |-> 0,
                   base_color |-> <<1000, 1000, 1000, 1000>>]

\* obj.data.materials.find(name), counted from 0
Find(s, name) == (CHOOSE i \in DOMAIN s : s[i] = name) - 1

(* SCENEBUILD_OT_ApplyMirrorMaterial *)
ApplyMirrorMaterial ==
    LET obj == edit_object
        mat_name == "Mirror"
        materials1 == IF mat_name \in DOMAIN materials THEN materials
                      ELSE materials @@ (mat_name :> MirrorMaterial)
        slots1 == IF InSel(mat_name, slots) THEN slots
                  ELSE Append(slots, mat_name)
        mat_index == Find(slots1, mat_name)
        selected_faces == SelectedFaces(vert_select)
    IN /\ obj \in Meshes
       /\ materials' = materials1
       /\ slots' = slots1
       /\ log' = <<>>
       /\ UNCHANGED <<props, location, scale, hide_viewport, hide_render,
                      animation_data, actions, ncalls, nedits, edit_object,
                      vert_select, lights, light_objects, light_settings>>
       /\ IF selected_faces = {}
          THEN /\ lastCall' = [op |-> "mirror", active |-> obj, sel |-> <<>>,
                               repeat |-> FALSE, result |-> "CANCELLED",
                               level |-> "WARNING",
                               message |-> "NoFacesSelected", count |-> 0]
               /\ UNCHANGED face_material
          ELSE /\ face_material' =
                    [f \in Faces |-> IF f \in selected_faces THEN mat_index
                                     ELSE face_material[f]]
               /\ lastCall' = [op |-> "mirror", active |-> obj, sel |-> <<>>,
                               repeat |-> FALSE, result |-> "FINISHED",
                               level |-> "INFO", message |-> "Applied",
                               count |-> Cardinality(selected_faces)]

\* the user selects or deselects a vertex of the edited mesh
ToggleVertex(v) ==
    /\ edit_object \in Meshes
    /\ vert_select' = IF v \in vert_select THEN vert_select \ {v}
                      ELSE vert_select \cup {v}
    /\ lastCall' = [Edited EXCEPT !.op = "select", !.active = edit_object]
    /\ log' = <<>>
    /\ UNCHANGED <<props, location, scale, hide_viewport, hide_render,
                   animation_data, actions, ncalls, nedits, edit_object,
                   face_material, materials, slots, lights, light_objects,
                   light_settings>>

\* The scene of Init with one of its meshes in edit mode.  The cube is
\* either unconfigured or configured like the lamp; the file holds no
\* material named Mirror, or one that the mesh uses or does not use.
InitEdit ==
    /\ edit_object \in Meshes
    /\ props \in {[o \in Objects |->
                 IF o = "cube" THEN cp
                 ELSE IF o = "lamp"
                 THEN [enabled |-> TRUE, effect_type |-> "GROW_OVERSHOOT",
                       start_frame |-> 2, duration |-> 4, floor_offset |-> -100,
                       overshoot_amount |-> 250, overshoot_settle_ratio |-> 50,
                       fall_height |-> 1000]
                 ELSE [enabled |-> TRUE, effect_type |-> "FALL_DOWN",
                       start_frame |-> 0, duration |-> 1, floor_offset |-> -200,
                       overshoot_amount |-> 500, overshoot_settle_ratio |-> 5,
                       fall_height |-> 2000]] :
                 cp \in {DefaultProps,
                         [enabled |-> TRUE, effect_type |-> "GROW_OVERSHOOT",
                          start_frame |-> 2, duration |-> 4,
                          floor_offset |-> -100, overshoot_amount |-> 250,
                          overshoot_settle_ratio |-> 50, fall_height |-> 1000]}}
    /\ location = [o \in Objects |->
                 IF o = "cube" THEN <<0, 0, 2000>>
                 ELSE IF o = "lamp" THEN <<100, 200, 300>>
                 ELSE <<-400, 0, 600>>]
    /\ scale = [o \in Objects |->
                 IF o = "cube" THEN <<1000, 2000, 1000>>
                 ELSE IF o = "lamp" THEN <<1000, 1000, 1000>>
                 ELSE <<2000, 1000, 3000>>]
    /\ hide_viewport = [o \in Objects |-> FALSE]
    /\ hide_render = [o \in Objects |-> FALSE]
    /\ animation_data = [o \in Objects |->
                 IF o = "cube" THEN NoAnim ELSE [has |-> TRUE, action |-> 1]]
    /\ actions = (1 :> {UserKey})
    /\ lastCall = [op |-> "none", active |-> "cube", sel |-> <<>>, result |-> "",
                   repeat |-> FALSE,
                   level |-> "", message |-> "", count |-> 0]
    /\ log = <<>>
    /\ ncalls = 0
    /\ nedits = 0
    /\ vert_select = {}
    /\ face_material = [f \in Faces |-> 0]
    /\ \E m \in {"none", "unused", "used"} :
         /\ materials = IF m = "none" THEN ("Wood" :> WoodMaterial)
                        ELSE ("Wood" :> WoodMaterial) @@ ("Mirror" :> MirrorMaterial)
         /\ slots = IF m = "used" THEN <<"Mirror", "Wood">> ELSE <<"Wood">>
    /\ lights = <<>>
    /\ light_objects = <<>>
    /\ light_settings \in {DefaultLightSettings,
                           [light_offset |-> 500, light_intensity |-> 250,
                            light_color_temp |-> "COOL"]}

NextEdit ==
    \/ \E v \in Verts : ToggleVertex(v)
    \/ \E light_type \in {"POINT", "AREA"} : AddLightToLamp(light_type)
    \/ ApplyMirrorMaterial

SpecEdit == InitEdit /\ [][NextEdit]_vars

\* a step of the AddLightFromVertices operator
AddLightStep == lastCall'.op = "add_light"

(* C16: AddLightFromVertices with no vertex selected reports the           *)
(* EmptySelection warning, returns cancelled and creates no light data, no *)
(* light object and no keyframe: the scene is unchanged.                   *)

C16_EmptySelectionNoLight ==
    [][(AddLightStep /\ vert_select = {}) =>
         /\ lastCall'.result = "CANCELLED"
         /\ lastCall'.level = "WARNING"
         /\ lastCall'.message = "EmptySelection"
         /\ lights' = lights
         /\ light_objects' = light_objects
         /\ log' = <<>>
         /\ UNCHANGED SceneVars
         /\ UNCHANGED MeshVars]_vars

\* a rejected call on a mesh whose animation a new light would be synced to,
\* in a scene that already holds a light made from an earlier selection
C16_Witness ==
    /\ lastCall.op = "add_light"
    /\ lastCall.result = "CANCELLED"
    /\ vert_select = {}
    /\ SyncsWithParent(props[edit_object])
    /\ props[edit_object].start_frame > 0
    /\ Len(lights) = 1
    /\ Len(light_objects) = 1

-----------------------------------------------------------------------------
\* what a user sees of one object in a scene value
ViewIn(S, o) ==
    [keys |-> IF HasAction(S, o) THEN S.actions[S.animation_data[o].action]
              ELSE {},
     location |-> S.location[o], scale |-> S.scale[o],
     hide_viewport |-> S.hide_viewport[o], hide_render |-> S.hide_render[o],
     props |-> S.props[o]]

\* the outcome of one ApplyAnimation call for one object of its selection
Outcome(active, sel, o) == ViewIn(ApplyToSelection(Scene, sel, 1, active), o)

(* C17: the keyframes, visibility schedule and transform an object ends    *)
(* one ApplyAnimation call with are the same whichever other object is     *)
(* selected with it and in whichever order the two are processed, a parent *)
(* with its light child included.                                          *)

C17_SelectionIndependence ==
    \A active \in Objects :
       props[active].enabled =>
          \A a, b \in Objects :
             a # b =>
                /\ Outcome(active, <<a, b>>, a) = Outcome(active, <<b, a>>, a)
                /\ Outcome(active, <<a, b>>, a) = Outcome(active, <<a>>, a)

\* a step of the ApplyMirrorMaterial operator
MirrorStep == lastCall'.op = "mirror"

(* C18: ApplyMirrorMaterial with no face selected reports a warning,       *)
(* returns cancelled and leaves the file's material list, the object's     *)
(* material slots and every face's material index unchanged.               *)

C18_NoFacesNoChange ==
    [][(MirrorStep /\ SelectedFaces(vert_select) = {}) =>
         /\ lastCall'.result = "CANCELLED"
         /\ lastCall'.level = "WARNING"
         /\ materials' = materials
         /\ slots' = slots
         /\ face_material' = face_material]_vars

====
